---- MODULE Spec2Model ----
(***************************************************************************)
(* Model of src/main.py: the /api/grade endpoint, its in-memory sliding-   *)
(* window rate limiter and the outbound completion call.                   *)
(*                                                                         *)
(* grade_answer is an `async def` endpoint, so every submission runs as a  *)
(* coroutine on one event loop: a coroutine keeps the loop from the moment *)
(* it is resumed until its next await.  `running` is the coroutine holding *)
(* the loop; the statements of lines 61-82 (is_rate_limited included)      *)
(* contain no await and are modelled one statement per step under that     *)
(* ownership.                                                              *)
(***************************************************************************)
EXTENDS Integers, Sequences, FiniteSets

\* ------------------------------------------------------------ constants
RATE_LIMIT == 1
WINDOW_SECONDS == 3600

\* ------------------------------------------------------------ bounds
\* Submissions in flight at once; a submission that has been answered leaves
\* its slot to the next one, so the number of submissions is not bounded.
MaxInFlight == 2
\* Advances of the wall clock.
MaxTicks == 2

Requests == 1..MaxInFlight
IPs == {"X", "Y"}
\* The amounts by which the wall clock advances between two observations:
\* just short of the window, the window, and just over it.
Steps == {WINDOW_SECONDS - 1, WINDOW_SECONDS, WINDOW_SECONDS + 1}
\* "No such time": the clock starts at 0 and never goes back.
Never == 0 - 1

\* ------------------------------------------------------------ request bodies
\* A JSON body: each field is absent (<<>>) or present with one string value.
\* The handler's control flow reads the body only through its validity.
Payloads ==
    { [question |-> <<"q">>, answer |-> <<"a">>, mode |-> <<"mentor">>],
      [question |-> <<>>,    answer |-> <<"a">>, mode |-> <<"mentor">>] }

NoPayload == [question |-> <<>>, answer |-> <<>>, mode |-> <<>>]

\* class AnswerRequest(BaseModel): question, answer and mode are all required.
AnswerRequestValid(p) ==
    /\ Len(p.question) = 1
    /\ Len(p.answer) = 1
    /\ Len(p.mode) = 1

\* ------------------------------------------------------------ prompt builder
HarshTone == "Respond harshly and sarcastically, but still provide the correct answer."
KindTone == "Respond kindly and encouragingly, offering constructive feedback."

\* Fault of line 108: the tone chosen by `mode == "mentor"`, so that an
\* unrecognised mode gets the harsh tone.
generate_prompt_by_mentor(question, answer, mode) ==
    LET tone == IF mode = "mentor" THEN KindTone ELSE HarshTone
    IN  << "You are an AI coding instructor.\n\n",
           "Question: ", question, "\n",
           "Student's Answer: ", answer, "\n\n",
           tone >>

\* generate_prompt: the f-string as the sequence of its pieces.
generate_prompt(question, answer, mode) ==
    LET tone == IF mode = "drill" THEN HarshTone ELSE KindTone
    IN  << "You are an AI coding instructor.\n\n",
           "Question: ", question, "\n",
           "Student's Answer: ", answer, "\n\n",
           tone >>

\* ------------------------------------------------------------ upstream
\* What the completion API can give back to `client.post`: a transport
\* failure (an httpx exception) or an HTTP response with a status and a body.
\* A body is text that either parses as JSON or does not; a JSON body carries
\* the list of its choices' message contents (empty when "choices" is absent
\* or empty).
UpstreamStatuses == {200, 301, 404, 500}
UpstreamBodies ==
    { [json |-> FALSE, text |-> "secret-internal-text", choices |-> <<>>],
      [json |-> TRUE,  text |-> "{\"error\": \"overloaded\"}", choices |-> <<>>],
      [json |-> TRUE,  text |-> "{\"choices\": [...]}", choices |-> <<"Good job", "Try again">>] }
NoBody == [json |-> FALSE, text |-> "", choices |-> <<>>]

Upstreams ==
    { [kind |-> k, status |-> 0, body |-> NoBody] : k \in {"timeout", "connect"} }
    \cup
    { [kind |-> "response", status |-> s, body |-> b] :
          s \in UpstreamStatuses, b \in UpstreamBodies }
NoUpstream == [kind |-> "none", status |-> 0, body |-> NoBody]

\* ------------------------------------------------------------ responses
NoResponse == [status |-> 0, key |-> "", text |-> ""]
QuotaDetail ==
    "Sorry, you reached the limit. You can only submit 3 times per hour. OpenAI isn't cheap."
UpstreamDetail == "Error from OpenAI API."
InternalDetail == "Internal server error."

\* ------------------------------------------------------------ state
VARIABLES
    clock,             \* time.time()
    ticks,             \* number of clock advances so far
    rate_limit_store,  \* defaultdict(list): a function on the identities seen
    running,           \* the coroutine holding the event loop, 0 when idle
    pc,                \* per submission: the line it is at
    client_ip,         \* per submission: request.client.host
    payload,           \* per submission: the JSON body
    now,               \* per submission: local `now` of is_rate_limited
    timestamps,        \* per submission: local `timestamps` of is_rate_limited
    limited,           \* per submission: the value is_rate_limited returned
    prompt,            \* per submission: the system prompt posted upstream
    gateway_calls,     \* per submission: outbound completion calls issued
    upstream,          \* per submission: what the completion API gave back
    response,          \* per submission: the HTTP response for the caller
    last_admit,        \* history: per identity, the time of its last
                       \* admission whose is_rate_limited call has returned
                       \* (Never if none)
    preempted          \* history: per submission, the time at which another
                       \* submission of its identity was last admitted
                       \* while it was itself waiting to call the limiter
                       \* (Never if none)

vars == << clock, ticks, rate_limit_store, running, pc, client_ip, payload, now,
           timestamps, limited, prompt, gateway_calls, upstream, response,
           last_admit, preempted >>

\* ------------------------------------------------------------ limiter
\* rate_limit_store[ip] of a defaultdict(list): a missing key reads as [].
Window(store, ip) == IF ip \in DOMAIN store THEN store[ip] ELSE <<>>

\* Fault of the store: one list shared by every identity.
PutShared(store, ip, value) == [k \in DOMAIN store \cup {ip} |-> value]

\* Fault of the store: an identity whose window is empty loses its entry.
PutEvicting(store, ip, value) ==
    [k \in (IF value = <<>> THEN DOMAIN store \ {ip} ELSE DOMAIN store \cup {ip})
        |-> IF k = ip THEN value ELSE store[k]]

\* store[ip] = value, creating the key when absent.
Put(store, ip, value) ==
    [k \in DOMAIN store \cup {ip} |-> IF k = ip THEN value ELSE store[k]]

\* Faults of line 32: a window one second short; the subtraction reversed.
FreshShortWindow(ts, t) == t - ts < WINDOW_SECONDS - 1
FreshReversed(ts, t) == ts - t < WINDOW_SECONDS

\* Fault of line 32: `<=` for `<`.
FreshInclusive(ts, t) == t - ts <= WINDOW_SECONDS

\* Line 32: [ts for ts in timestamps if now - ts < WINDOW_SECONDS]
Fresh(ts, t) == t - ts < WINDOW_SECONDS
\* Fault of lines 32-37: `now` recorded before the capacity check.
CompactThenRecord(tss, t) == Append(SelectSeq(tss, LAMBDA ts : Fresh(ts, t)), t)

Compact(tss, t) == SelectSeq(tss, LAMBDA ts : Fresh(ts, t))

\* Fault of line 34: `>` for `>=`.
AtCapacityOver(window) == Len(window) > RATE_LIMIT

\* Line 34: len(rate_limit_store[ip]) >= RATE_LIMIT
AtCapacity(window) == Len(window) >= RATE_LIMIT

\* Fault of line 37: `now` appended twice.
RecordTwice(window, t) == Append(Append(window, t), t)

\* Line 37: rate_limit_store[ip].append(now)
Record(window, t) == Append(window, t)

\* ------------------------------------------------------------ outcome mapping
\* response.raise_for_status(): raises HTTPStatusError unless the status is 2xx.
RaisesForStatus(status) == ~(200 <= status /\ status <= 299)

\* Fault of line 93: the last choice for the first.
ReplyLast(body) == body.choices[Len(body.choices)]

\* Lines 92-94: response.json() and result["choices"][0]["message"]["content"]
\* raise on a body that is not JSON or that has no first choice.
ReplyRaises(body) == ~body.json \/ Len(body.choices) = 0
Reply(body) == body.choices[1]

\* Fault of line 98: the upstream body echoed as the detail.
OutcomeLeaky(u) ==
    IF u.kind # "response"
    THEN [status |-> 500, key |-> "detail", text |-> InternalDetail]
    ELSE IF RaisesForStatus(u.status)
    THEN [status |-> 500, key |-> "detail", text |-> u.body.text]
    ELSE IF ReplyRaises(u.body)
    THEN [status |-> 500, key |-> "detail", text |-> InternalDetail]
    ELSE [status |-> 200, key |-> "response", text |-> Reply(u.body)]

\* Lines 84-104: the response of an admitted submission, by upstream outcome.
Outcome(u) ==
    IF u.kind # "response"
    THEN [status |-> 500, key |-> "detail", text |-> InternalDetail]
    ELSE IF RaisesForStatus(u.status)
    THEN [status |-> 500, key |-> "detail", text |-> UpstreamDetail]
    ELSE IF ReplyRaises(u.body)
    THEN [status |-> 500, key |-> "detail", text |-> InternalDetail]
    ELSE [status |-> 200, key |-> "response", text |-> Reply(u.body)]

\* Lines 66-69
QuotaResponse == [status |-> 429, key |-> "detail", text |-> QuotaDetail]

\* FastAPI's answer to a body that does not validate against AnswerRequest.
ValidationResponse == [status |-> 422, key |-> "detail", text |-> "validation error"]

\* Fault of line 64: the limiter's answer ignored.
ProceedsAlways(lim) == TRUE

\* Whether the handler goes on to the completion call after the limiter.
Proceeds(lim) == lim = "False"

\* Fault of lines 96-102: the quota refunded when the call failed.
StoreRefundOnFailure(store, ip, u) ==
    IF Outcome(u).status = 500 THEN Put(store, ip, <<>>) ELSE store

\* The limiter state after the completion call of `ip` ended with `u`: lines
\* 84-104 do not touch rate_limit_store.
StoreAfterGateway(store, ip, u) == store

\* Fault of the dispatch: the limiter map consulted before validation.
StoreTouchedOnInvalid(store, ip) == Put(store, ip, Window(store, ip))

\* The limiter state after a body of `ip` failed validation: grade_answer,
\* and with it is_rate_limited, is not called.
StoreAfterInvalid(store, ip) == store

\* Fault of lines 84-102: the call issued again after a failure.
CallsWithRetry(n, u) == IF Outcome(u).status = 500 THEN n + 1 ELSE n

\* The outbound calls a submission has issued once its call ended with `u`:
\* lines 84-102 hold no loop, a failure goes straight to its except branch.
CallsAfterOutcome(n, u) == n

\* Fault of line 86: a blocking call, which keeps the loop while in flight.
LoopHeldAcrossPost(r) == r

\* The holder of the event loop once submission r awaits client.post on
\* line 86: nobody, the await gives the loop back.
LoopAfterPost(r) == 0

\* ------------------------------------------------------------ Init
Init ==
    /\ clock = 0
    /\ ticks = 0
    /\ rate_limit_store = << >>
    /\ running = 0
    /\ pc = [r \in Requests |-> "idle"]
    /\ client_ip = [r \in Requests |-> ""]
    /\ payload = [r \in Requests |-> NoPayload]
    /\ now = [r \in Requests |-> Never]
    /\ timestamps = [r \in Requests |-> <<>>]
    /\ limited = [r \in Requests |-> "unset"]
    /\ prompt = [r \in Requests |-> <<>>]
    /\ gateway_calls = [r \in Requests |-> 0]
    /\ upstream = [r \in Requests |-> NoUpstream]
    /\ response = [r \in Requests |-> NoResponse]
    /\ last_admit = [ip \in IPs |-> Never]
    /\ preempted = [r \in Requests |-> Never]

\* ------------------------------------------------------------ actions
\* The wall clock advances.  The clock is read on line 28 only, so its
\* advances are observed between coroutine steps.
Tick(d) ==
    /\ running = 0
    /\ ticks < MaxTicks
    /\ clock' = clock + d
    /\ ticks' = ticks + 1
    /\ UNCHANGED << rate_limit_store, running, pc, client_ip, payload, now,
                    timestamps, limited, prompt, gateway_calls, upstream,
                    response, last_admit, preempted >>

\* Lines 53-60: a submission arrives from `ip` with body `p`.  FastAPI
\* validates the body against AnswerRequest before it calls grade_answer: an
\* invalid body is answered 422 and the handler never runs.
Dispatch(r, ip, p) ==
    /\ pc[r] = "idle"
    /\ running = 0
    /\ \A q \in Requests : q < r => pc[q] # "idle"
    /\ IF AnswerRequestValid(p)
       THEN /\ pc' = [pc EXCEPT ![r] = "L61"]
            /\ client_ip' = [client_ip EXCEPT ![r] = ip]
            /\ payload' = [payload EXCEPT ![r] = p]
            /\ UNCHANGED << response, rate_limit_store, running >>
       ELSE /\ pc' = [pc EXCEPT ![r] = "respond"]
            /\ running' = r
            /\ client_ip' = [client_ip EXCEPT ![r] = ip]
            /\ response' = [response EXCEPT ![r] = ValidationResponse]
            /\ rate_limit_store' = StoreAfterInvalid(rate_limit_store, ip)
            /\ UNCHANGED payload
    /\ UNCHANGED << clock, ticks, now, timestamps, limited, prompt,
                    gateway_calls, upstream, last_admit, preempted >>

\* Lines 61-64 and 28-29: the coroutine gets the loop, calls
\* is_rate_limited(client_ip), reads the clock and looks its window up (the
\* defaultdict creates the entry of an identity it has not seen).
L28(r) ==
    /\ pc[r] = "L61"
    /\ running = 0
    /\ running' = r
    /\ now' = [now EXCEPT ![r] = clock]
    /\ timestamps' = [timestamps EXCEPT ![r] = Window(rate_limit_store, client_ip[r])]
    /\ rate_limit_store' =
           Put(rate_limit_store, client_ip[r], Window(rate_limit_store, client_ip[r]))
    /\ pc' = [pc EXCEPT ![r] = "L32"]
    /\ UNCHANGED << clock, ticks, client_ip, payload, limited, prompt,
                    gateway_calls, upstream, response, last_admit, preempted >>

\* Line 32: the window is replaced by its unexpired timestamps.
L32(r) ==
    /\ pc[r] = "L32"
    /\ running = r
    /\ rate_limit_store' =
           Put(rate_limit_store, client_ip[r], Compact(timestamps[r], now[r]))
    /\ pc' = [pc EXCEPT ![r] = "L34"]
    /\ UNCHANGED << clock, ticks, running, client_ip, payload, now, timestamps,
                    limited, prompt, gateway_calls, upstream, response, last_admit,
                    preempted >>

\* Lines 34-35: at capacity, return True.
L34(r) ==
    /\ pc[r] = "L34"
    /\ running = r
    /\ IF AtCapacity(Window(rate_limit_store, client_ip[r]))
       THEN /\ limited' = [limited EXCEPT ![r] = "True"]
            /\ pc' = [pc EXCEPT ![r] = "L64"]
       ELSE /\ pc' = [pc EXCEPT ![r] = "L37"]
            /\ UNCHANGED limited
    /\ UNCHANGED << clock, ticks, rate_limit_store, running, client_ip, payload,
                    now, timestamps, prompt, gateway_calls, upstream, response,
                    last_admit, preempted >>

\* Lines 37-38: record `now`, return False.
L37(r) ==
    /\ pc[r] = "L37"
    /\ running = r
    /\ rate_limit_store' =
           Put(rate_limit_store, client_ip[r],
               Record(Window(rate_limit_store, client_ip[r]), now[r]))
    /\ limited' = [limited EXCEPT ![r] = "False"]
    /\ pc' = [pc EXCEPT ![r] = "L64"]
    /\ UNCHANGED << clock, ticks, running, client_ip, payload, now, timestamps,
                    prompt, gateway_calls, upstream, response, last_admit, preempted >>

\* Lines 64-90: is_rate_limited has returned (its locals are gone).  A
\* limited submission is answered 429 and its handler is over; any other
\* builds its prompt, issues the outbound call and awaits it, which releases
\* the loop.
L64(r) ==
    /\ pc[r] = "L64"
    /\ running = r
    /\ now' = [now EXCEPT ![r] = Never]
    /\ timestamps' = [timestamps EXCEPT ![r] = <<>>]
    /\ preempted' = [q \in Requests |->
           IF q = r THEN Never
           ELSE IF /\ Proceeds(limited[r])
                   /\ pc[q] = "L61"
                   /\ client_ip[q] = client_ip[r]
           THEN now[r]
           ELSE preempted[q]]
    /\ IF Proceeds(limited[r])
       THEN /\ prompt' = [prompt EXCEPT ![r] =
                   generate_prompt(payload[r].question[1], payload[r].answer[1],
                                   payload[r].mode[1])]
            /\ gateway_calls' = [gateway_calls EXCEPT ![r] = @ + 1]
            /\ pc' = [pc EXCEPT ![r] = "L86"]
            /\ running' = LoopAfterPost(r)
            /\ last_admit' = [last_admit EXCEPT ![client_ip[r]] = now[r]]
            /\ UNCHANGED << response, client_ip, payload >>
       ELSE /\ response' = [response EXCEPT ![r] = QuotaResponse]
            /\ pc' = [pc EXCEPT ![r] = "respond"]
            /\ payload' = [payload EXCEPT ![r] = NoPayload]
            /\ UNCHANGED << prompt, gateway_calls, last_admit, running, client_ip >>
    /\ UNCHANGED << clock, ticks, rate_limit_store, limited, upstream >>

\* Lines 86-104: the awaited call ends with outcome `u` (a response, or a
\* transport failure, the 30-second timeout included); the coroutine is
\* resumed and runs to its return or raise, which fixes the HTTP response and
\* ends the handler.
L86(r, u) ==
    /\ pc[r] = "L86"
    /\ running = 0
    /\ running' = r
    /\ upstream' = [upstream EXCEPT ![r] = u]
    /\ response' = [response EXCEPT ![r] = Outcome(u)]
    /\ gateway_calls' = [gateway_calls EXCEPT ![r] = CallsAfterOutcome(@, u)]
    /\ rate_limit_store' = StoreAfterGateway(rate_limit_store, client_ip[r], u)
    /\ pc' = [pc EXCEPT ![r] = "respond"]
    /\ payload' = [payload EXCEPT ![r] = NoPayload]
    /\ prompt' = [prompt EXCEPT ![r] = <<>>]
    /\ UNCHANGED << clock, ticks, client_ip, now, timestamps, limited,
                    last_admit, preempted >>

\* The response of a finished handler is written to the caller in the loop
\* turn that finished it; the submission is over and the loop is released.
Respond(r) ==
    /\ pc[r] = "respond"
    /\ running = r
    /\ running' = 0
    /\ pc' = [pc EXCEPT ![r] = "idle"]
    /\ limited' = [limited EXCEPT ![r] = "unset"]
    /\ gateway_calls' = [gateway_calls EXCEPT ![r] = 0]
    /\ upstream' = [upstream EXCEPT ![r] = NoUpstream]
    /\ response' = [response EXCEPT ![r] = NoResponse]
    /\ client_ip' = [client_ip EXCEPT ![r] = ""]
    /\ UNCHANGED << clock, ticks, rate_limit_store, payload, now, timestamps,
                    prompt, last_admit, preempted >>

Next ==
    \/ \E d \in Steps : Tick(d)
    \/ \E r \in Requests, ip \in IPs, p \in Payloads : Dispatch(r, ip, p)
    \/ \E r \in Requests : L28(r)
    \/ \E r \in Requests : L32(r)
    \/ \E r \in Requests : L34(r)
    \/ \E r \in Requests : L37(r)
    \/ \E r \in Requests : L64(r)
    \/ \E r \in Requests, u \in Upstreams : L86(r, u)
    \/ \E r \in Requests : Respond(r)

Spec == Init /\ [][Next]_vars

\* ------------------------------------------------------------ prompts
\* The valid bodies the prompt builder is exercised on: the two canonical
\* modes and an unrecognised one, and questions and answers that are plain
\* or are themselves the text of a tone instruction.
PromptPayloads ==
    { [question |-> <<q>>, answer |-> <<a>>, mode |-> <<m>>] :
          q \in {"q", KindTone},
          a \in {"a", HarshTone},
          m \in {"drill", "mentor", "anything-else"} }

\* One submission at a time, with any of these bodies.
NextPrompt ==
    \/ \E d \in Steps : Tick(d)
    \/ \E ip \in IPs, p \in PromptPayloads : Dispatch(1, ip, p)
    \/ L28(1)
    \/ L32(1)
    \/ L34(1)
    \/ L37(1)
    \/ L64(1)
    \/ \E u \in Upstreams : L86(1, u)
    \/ Respond(1)

SpecPrompt == Init /\ [][NextPrompt]_vars

\* ------------------------------------------------------------ scheduling
\* The event loop runs every ready coroutine in turn and the awaited call
\* ends within its 30-second timeout (line 85): a coroutine that is ready
\* whenever the loop is free gets the loop (strong fairness on the two steps
\* that take it), and the coroutine that holds the loop runs on to its next
\* await or to its end (weak fairness).  Arrivals and the clock are the
\* environment's and carry no fairness.
HandlerFairness(r) ==
    /\ SF_vars(L28(r))
    /\ WF_vars(L32(r))
    /\ WF_vars(L34(r))
    /\ WF_vars(L37(r))
    /\ WF_vars(L64(r))
    /\ SF_vars(\E u \in Upstreams : L86(r, u))
    /\ WF_vars(Respond(r))

SpecLive == Spec /\ \A r \in Requests : HandlerFairness(r)

\* ------------------------------------------------------------ properties
\* is_rate_limited has just returned to line 64 for submission r: its answer
\* is in limited[r], its clock reading in now[r], the window it found in
\* timestamps[r].
Decided(r) == pc[r] = "L64"
Admitted(r) == Decided(r) /\ limited[r] = "False"
Denied(r) == Decided(r) /\ limited[r] = "True"

\* C1: every limiter call of an identity made less than WINDOW_SECONDS after
\* an admitted call of the same identity is Denied; so any two Admitted calls
\* of one identity are at least WINDOW_SECONDS apart.
C1_OneAdmissionPerWindow ==
    \A r \in Requests :
        ( /\ Decided(r)
          /\ last_admit[client_ip[r]] # Never
          /\ now[r] - last_admit[client_ip[r]] < WINDOW_SECONDS )
        => limited[r] = "True"

\* A call 3599 seconds after an admission of its identity, Denied.
C1_Witness ==
    \E r \in Requests :
        /\ Denied(r)
        /\ last_admit[client_ip[r]] # Never
        /\ now[r] - last_admit[client_ip[r]] = WINDOW_SECONDS - 1

\* C2: of two submissions of one identity that were both waiting to call the
\* limiter, the one that calls it second, less than WINDOW_SECONDS after the
\* first was Admitted, is Denied: never two Admitted.
C2_RaceOneAdmitted ==
    \A r \in Requests :
        ( /\ Decided(r)
          /\ preempted[r] # Never
          /\ now[r] - preempted[r] < WINDOW_SECONDS )
        => limited[r] = "True"

\* Two submissions of one identity raced at the same instant: the first is
\* awaiting the completion call, the second has just been Denied.
C2_Witness ==
    \E r, q \in Requests :
        /\ Denied(r)
        /\ preempted[r] = now[r]
        /\ pc[q] = "L86"
        /\ client_ip[q] = client_ip[r]

\* C3: the 429 answer is given only to a submission of an identity that has
\* 3 admitted submissions in its current window.
C3_ThreePerHour ==
    \A r \in Requests :
        Denied(r) => Len(Window(rate_limit_store, client_ip[r])) >= 3

\* C4: a call that finds t0 as the only stored timestamp of its identity and
\* is made at t0 + WINDOW_SECONDS + 1 is Admitted.
C4_ExpiryReleases ==
    \A r \in Requests :
        ( /\ Decided(r)
          /\ Len(timestamps[r]) = 1
          /\ now[r] = timestamps[r][1] + WINDOW_SECONDS + 1 )
        => limited[r] = "False"

\* Such a call, Admitted, whose t0 is not the start of the clock.
C4_Witness ==
    \E r \in Requests :
        /\ Admitted(r)
        /\ Len(timestamps[r]) = 1
        /\ timestamps[r][1] > 0
        /\ now[r] = timestamps[r][1] + WINDOW_SECONDS + 1

\* The window of identity ip differs between this state and the next.
WindowChanges(ip) ==
    \/ (ip \in DOMAIN rate_limit_store) # (ip \in DOMAIN rate_limit_store')
    \/ /\ ip \in DOMAIN rate_limit_store
       /\ ip \in DOMAIN rate_limit_store'
       /\ rate_limit_store[ip] # rate_limit_store'[ip]

\* The outcome of a call is decided by the caller's own last admission and
\* the time of the call.
C5_OwnHistoryDecides ==
    \A r \in Requests :
        Decided(r) =>
            ( limited[r] = "False"
              <=> ( \/ last_admit[client_ip[r]] = Never
                    \/ now[r] - last_admit[client_ip[r]] >= WINDOW_SECONDS ) )

\* A step changes the window of an identity only if it is a step of a
\* submission of that identity.
C5_OwnWindowOnly ==
    \A ip \in IPs :
        WindowChanges(ip) => (running' \in Requests /\ client_ip'[running'] = ip)

\* C5: a limiter call for X never changes the window of another identity Y,
\* and the outcome of a call for Y depends on Y's own admissions and the
\* time only.
C5_Independence == []C5_OwnHistoryDecides /\ [][C5_OwnWindowOnly]_vars

\* Y is Admitted while another identity is at capacity.
C5_Witness ==
    \E r \in Requests : \E x \in IPs :
        /\ Admitted(r)
        /\ x # client_ip[r]
        /\ last_admit[x] # Never
        /\ now[r] - last_admit[x] < WINDOW_SECONDS
        /\ Window(rate_limit_store, x) = << last_admit[x] >>

\* C6: a Denied submission issues no completion call and is answered 429.
C6_DenialShortCircuits ==
    \A r \in Requests :
        limited[r] = "True" =>
            /\ gateway_calls[r] = 0
            /\ upstream[r] = NoUpstream
            /\ pc[r] \in {"L64", "respond"}
            /\ pc[r] = "respond" =>
                   (response[r].status = 429 /\ response[r].text = QuotaDetail)

\* A Denied submission being answered.
C6_Witness ==
    \E r \in Requests :
        /\ pc[r] = "respond"
        /\ limited[r] = "True"
        /\ response[r].status = 429

\* No limiter call is under way.
LimiterIdle == running = 0 \/ pc[running] = "respond"

\* The last admission of every identity is still what its window holds.
C7_Charged ==
    LimiterIdle =>
        \A ip \in IPs :
            last_admit[ip] # Never =>
                Window(rate_limit_store, ip) = << last_admit[ip] >>

\* The step that ends a completion call leaves the limiter map as it was.
C7_GatewayFrame ==
    \A r \in Requests :
        (pc[r] = "L86" /\ pc'[r] # "L86") => rate_limit_store' = rate_limit_store

\* C7: the timestamp of an Admitted submission stays in its identity's window
\* whatever the completion call ends with, and the end of a completion call
\* leaves the limiter state unchanged.
C7_NoRefund == []C7_Charged /\ [][C7_GatewayFrame]_vars

\* A submission answered 500 whose admission is still charged.
C7_Witness ==
    \E r \in Requests :
        /\ pc[r] = "respond"
        /\ response[r].status = 500
        /\ last_admit[client_ip[r]] # Never
        /\ Window(rate_limit_store, client_ip[r]) = << last_admit[client_ip[r]] >>

\* A submission answered 422 never reached the limiter or the gateway.
C8_InvalidUntouched ==
    \A r \in Requests :
        response[r].status = 422 =>
            /\ limited[r] = "unset"
            /\ gateway_calls[r] = 0
            /\ now[r] = Never

\* The step that rejects a body leaves the limiter map and every call count
\* as they were.
C8_InvalidFrame ==
    \A r \in Requests :
        (pc[r] = "idle" /\ response'[r].status = 422) =>
            /\ rate_limit_store' = rate_limit_store
            /\ gateway_calls' = gateway_calls
            /\ last_admit' = last_admit

\* C8: a submission whose body fails validation changes neither the limiter
\* state (the windows, the identities known) nor the gateway call count.
C8_NoQuotaOnInvalid == []C8_InvalidUntouched /\ [][C8_InvalidFrame]_vars

\* A body rejected for a caller the limiter has never seen, and one for a
\* caller whose window holds a timestamp.
C8_Witness ==
    \E r \in Requests :
        /\ pc[r] = "respond"
        /\ response[r].status = 422
        /\ client_ip[r] \notin DOMAIN rate_limit_store
        /\ \E x \in DOMAIN rate_limit_store : Len(rate_limit_store[x]) = 1

\* The failure classes of the completion call.
FailureClass(u) ==
    IF u.kind \in {"timeout", "connect"} THEN "InternalError"
    ELSE IF u.status < 200 \/ u.status > 299 THEN "UpstreamError"
    ELSE IF ~u.body.json \/ u.body.choices = <<>> THEN "InternalError"
    ELSE "Reply"

\* The texts the completion API supplied.
UpstreamTexts(u) == {u.body.text} \cup {u.body.choices[i] : i \in DOMAIN u.body.choices}

\* C9: on a failed completion call the response is the one any other upstream
\* outcome of the same failure class gets, its body is one of the two fixed
\* details and none of the upstream's texts.
C9_NoUpstreamLeak ==
    \A r \in Requests :
        (pc[r] = "respond" /\ upstream[r] # NoUpstream
                           /\ FailureClass(upstream[r]) # "Reply") =>
            /\ \A u \in Upstreams :
                   FailureClass(u) = FailureClass(upstream[r]) => Outcome(u) = response[r]
            /\ response[r].key = "detail"
            /\ response[r].text \in {UpstreamDetail, InternalDetail}
            /\ response[r].text \notin UpstreamTexts(upstream[r])

\* An upstream 500 carrying "secret-internal-text", answered with the fixed
\* detail.
C9_Witness ==
    \E r \in Requests :
        /\ pc[r] = "respond"
        /\ upstream[r].kind = "response"
        /\ upstream[r].status = 500
        /\ upstream[r].body.text = "secret-internal-text"
        /\ response[r].text = UpstreamDetail

\* C10: an admitted submission is answered 200 with the first choice's text
\* on a successful well-formed upstream answer, 500 "Error from OpenAI API."
\* on a non-success upstream status, 500 "Internal server error." on a
\* transport failure, a timeout or a malformed body, and nothing else.
C10_OutcomeMapping ==
    \A r \in Requests :
        (pc[r] = "respond" /\ limited[r] = "False") =>
            LET u == upstream[r]
            IN  /\ u \in Upstreams
                /\ FailureClass(u) = "Reply" =>
                       response[r] = [status |-> 200, key |-> "response",
                                      text |-> Head(u.body.choices)]
                /\ FailureClass(u) = "UpstreamError" =>
                       response[r] = [status |-> 500, key |-> "detail",
                                      text |-> "Error from OpenAI API."]
                /\ FailureClass(u) = "InternalError" =>
                       response[r] = [status |-> 500, key |-> "detail",
                                      text |-> "Internal server error."]

\* A 200 carrying the first of two choices.
C10_Witness ==
    \E r \in Requests :
        /\ pc[r] = "respond"
        /\ response[r].status = 200
        /\ Len(upstream[r].body.choices) = 2
        /\ response[r].text = upstream[r].body.choices[1]

\* C11: a submission issues one outbound completion call if it was Admitted
\* and has gone on to line 86, and none otherwise; the count stays one when
\* the call has failed or timed out.
C11_SingleAttempt ==
    \A r \in Requests :
        gateway_calls[r] =
            IF limited[r] = "False" /\ pc[r] \in {"L86", "respond"} THEN 1 ELSE 0

\* A submission whose one call timed out, being answered.
C11_Witness ==
    \E r \in Requests :
        /\ pc[r] = "respond"
        /\ upstream[r].kind = "timeout"
        /\ response[r].status = 500
        /\ gateway_calls[r] = 1

\* C12: a submission whose completion call is in flight does not hold the
\* event loop, and while it is in flight any waiting submission, of the same
\* or of another identity, can start its limiter call as soon as no other
\* submission is running.
C12_LockCoversLimiterOnly ==
    \A r \in Requests :
        pc[r] = "L86" =>
            /\ running # r
            /\ \A q \in Requests :
                   (pc[q] = "L61" /\ running \in {0, r}) => ENABLED L28(q)

\* A limiter call of the same identity completed while a completion call was
\* in flight.
C12_Witness ==
    \E r, q \in Requests :
        /\ pc[r] = "L86"
        /\ Decided(q)
        /\ client_ip[q] = client_ip[r]
        /\ now[q] = last_admit[client_ip[r]]

\* The prompt has `text` among the pieces of its f-string.
Contains(p, text) == \E i \in DOMAIN p : p[i] = text

\* Submission r has built its prompt and posted it.
Posted(r) == pc[r] = "L86"

\* C13 as stated: a drill prompt contains the harsh instruction and not the
\* encouraging one, a prompt of any other mode the encouraging one and not
\* the harsh one, whatever the question and the answer.
C13_ToneExclusive ==
    \A r \in Requests :
        Posted(r) =>
            IF payload[r].mode[1] = "drill"
            THEN Contains(prompt[r], HarshTone) /\ ~Contains(prompt[r], KindTone)
            ELSE Contains(prompt[r], KindTone) /\ ~Contains(prompt[r], HarshTone)

\* C13, amended: the prompt is the fixed template around the question and the
\* answer, ending with the harsh instruction for mode "drill" and with the
\* encouraging one for any other mode; the other instruction's text is in
\* the prompt only if the question or the answer is that text.
C13_ToneByMode ==
    \A r \in Requests :
        Posted(r) =>
            LET q == payload[r].question[1]
                a == payload[r].answer[1]
                drill == payload[r].mode[1] = "drill"
                tone == IF drill THEN HarshTone ELSE KindTone
                other == IF drill THEN KindTone ELSE HarshTone
            IN  /\ prompt[r] = << "You are an AI coding instructor.\n\n",
                                  "Question: ", q, "\n",
                                  "Student's Answer: ", a, "\n\n", tone >>
                /\ prompt[r][Len(prompt[r])] = tone
                /\ Contains(prompt[r], other) => other \in {q, a}

\* An unrecognised mode, given the encouraging instruction.
C13_Witness ==
    \E r \in Requests :
        /\ Posted(r)
        /\ payload[r].mode[1] = "anything-else"
        /\ prompt[r][Len(prompt[r])] = KindTone
        /\ ~Contains(prompt[r], HarshTone)

\* C14: after a Denied call at time now the identity's window is the window
\* the call found, cut down to the timestamps t with now - t < 3600 in their
\* order: nothing is appended, so the call leaves every stored timestamp,
\* and with it the time of the next admission, where it was.
C14_DenialRecordsNothing ==
    \A r \in Requests :
        Denied(r) =>
            LET kept == SelectSeq(timestamps[r],
                                  LAMBDA t : now[r] - t < WINDOW_SECONDS)
                after == Window(rate_limit_store, client_ip[r])
            IN  /\ after = kept
                /\ Len(after) <= Len(timestamps[r])
                /\ \A i \in DOMAIN after :
                       \E j \in DOMAIN timestamps[r] : timestamps[r][j] = after[i]

\* A call Denied strictly later than the one stored timestamp, which is
\* still the whole window.
C14_Witness ==
    \E r \in Requests :
        /\ Denied(r)
        /\ Len(timestamps[r]) = 1
        /\ now[r] > timestamps[r][1]
        /\ Window(rate_limit_store, client_ip[r]) = timestamps[r]

\* C15: right after a limiter call at time now every timestamp t of the
\* identity's window has now - t < 3600; a call that finds the one timestamp
\* t0 is Denied at t0 + 3599 and Admitted at t0 + 3600.
C15_StrictWindow ==
    \A r \in Requests :
        Decided(r) =>
            LET after == Window(rate_limit_store, client_ip[r])
            IN  /\ \A i \in DOMAIN after : now[r] - after[i] < WINDOW_SECONDS
                /\ Len(timestamps[r]) = 1 =>
                       /\ now[r] = timestamps[r][1] + (WINDOW_SECONDS - 1) => limited[r] = "True"
                       /\ now[r] = timestamps[r][1] + WINDOW_SECONDS => limited[r] = "False"

\* A call at exactly t0 + 3600, Admitted, its window holding `now` alone.
C15_Witness ==
    \E r \in Requests :
        /\ Admitted(r)
        /\ Len(timestamps[r]) = 1
        /\ now[r] = timestamps[r][1] + WINDOW_SECONDS
        /\ Window(rate_limit_store, client_ip[r]) = << now[r] >>

\* Every identity whose limiter call has begun has an entry in the store.
C16_EntryOnceSubmitted ==
    \A r \in Requests :
        ( \/ pc[r] \in {"L32", "L34", "L37", "L64", "L86"}
          \/ pc[r] = "respond" /\ response[r] # ValidationResponse )
            => client_ip[r] \in DOMAIN rate_limit_store

\* The limiter call of submission r takes a step.
LimiterStep(r) ==
    /\ pc[r] \in {"L61", "L32", "L34", "L37"}
    /\ pc'[r] # pc[r]
    /\ running' = r

\* An entry appears only as the limiter call of a validated submission of
\* that identity begins; a window changes only inside a limiter call for
\* that identity; no entry is ever removed; the clock passing changes nothing.
C16_StoreFrame ==
    /\ DOMAIN rate_limit_store \subseteq DOMAIN rate_limit_store'
    /\ \A ip \in IPs :
           /\ WindowChanges(ip) =>
                  \E r \in Requests : LimiterStep(r) /\ client_ip[r] = ip
           /\ (ip \notin DOMAIN rate_limit_store /\ ip \in DOMAIN rate_limit_store') =>
                  \E r \in Requests :
                      /\ pc[r] = "L61" /\ pc'[r] = "L32"
                      /\ client_ip[r] = ip
                      /\ AnswerRequestValid(payload[r])
                      /\ rate_limit_store'[ip] = <<>>
    /\ clock' # clock => rate_limit_store' = rate_limit_store

\* C16: windows are purged lazily and identities are never evicted: a window
\* changes only during a limiter call for its own identity (the clock passing
\* leaves expired timestamps stored), an identity has an entry from the
\* limiter call of its first validated submission on, and no entry is ever
\* removed.
C16_LazyPurge == []C16_EntryOnceSubmitted /\ [][C16_StoreFrame]_vars

\* Nothing in flight, and an identity's window still holds a timestamp that
\* expired while nobody asked.
C16_Witness ==
    /\ \A r \in Requests : pc[r] = "idle"
    /\ \E ip \in DOMAIN rate_limit_store :
           /\ Len(rate_limit_store[ip]) = 1
           /\ clock - rate_limit_store[ip][1] >= WINDOW_SECONDS

\* C17: in every reachable state the stored window of every identity holds
\* at most RATE_LIMIT timestamps, expired ones not yet compacted included.
C17_WindowBounded ==
    \A ip \in DOMAIN rate_limit_store : Len(rate_limit_store[ip]) <= RATE_LIMIT

\* Two submissions of one identity in flight: one awaits the gateway, the
\* other is about to compact the window, which is full and expired.
C17_Witness ==
    \E r, q \in Requests :
        /\ r # q
        /\ client_ip[r] = client_ip[q]
        /\ pc[r] = "L86"
        /\ pc[q] = "L32"
        /\ Len(rate_limit_store[client_ip[q]]) = RATE_LIMIT
        /\ \A i \in DOMAIN rate_limit_store[client_ip[q]] :
               now[q] - rate_limit_store[client_ip[q]][i] >= WINDOW_SECONDS

\* A response, once fixed, is the one that is sent; a Denied submission is
\* answered 429 by the very next step of its handler, with no await between.
C18_OneResponse ==
    \A r \in Requests :
        /\ response[r] # NoResponse =>
               \/ response'[r] = response[r]
               \/ response'[r] = NoResponse /\ pc[r] = "respond" /\ pc'[r] = "idle"
        /\ (Denied(r) /\ pc'[r] # pc[r]) =>
               /\ pc'[r] = "respond"
               /\ response'[r] = QuotaResponse
               /\ running' = r
        /\ (pc[r] = "respond") <=> (response[r] # NoResponse)

\* A submission waiting for the loop, or one awaiting the gateway, gets its
\* response, and the response is sent.
C18_Answered ==
    \A r \in Requests :
        /\ (pc[r] = "L61") ~>
               (pc[r] = "respond" /\ response[r].status \in {200, 429, 500})
        /\ (pc[r] = "L86") ~>
               (pc[r] = "respond" /\ response[r].status \in {200, 500})
        /\ (pc[r] = "respond") ~> (pc[r] = "idle")

\* C18: every validated submission eventually receives exactly one response:
\* a Denied one 429 at once, an Admitted one 200 or 500 once the upstream call
\* has returned, failed or timed out; a submission that failed does not keep
\* a later one from being handled.
C18_EveryoneAnswered == C18_Answered /\ [][C18_OneResponse]_vars

\* A submission has failed with 500 and holds its response while a later
\* submission waits for its turn.
C18_Witness ==
    \E r, q \in Requests :
        /\ r # q
        /\ pc[r] = "respond"
        /\ response[r].status = 500
        /\ upstream[r].kind = "timeout"
        /\ pc[q] = "L61"

====
